---------------------------- MODULE Spec2Model ----------------------------
(***************************************************************************)
(* Model of the HMAC relay of src/bridge/app.py: verify_hmac, the          *)
(* authenticated route /engine and the unauthenticated probe /test-render, *)
(* served by a pool of worker threads in front of a remote backend.        *)
(*                                                                         *)
(* Abstractions.                                                           *)
(*  - Bytes are integers 0..255, a raw body is a sequence of bytes, a      *)
(*    Python str is a sequence of code points.                             *)
(*  - HMAC-SHA256(key, msg).hexdigest() is an ideal keyed hash: the        *)
(*    digest of (key, msg) is the record HexDigest(key, msg), equal to     *)
(*    another digest only when key and message are equal, and never equal  *)
(*    to a header value that is not a digest.                              *)
(*  - Every inbound /engine request carries Content-Type:                  *)
(*    application/json (the route's documented input).                     *)
(*  - One call of requests.get / requests.post is one outbound attempt;    *)
(*    its result is a response (status, text) or a raised exception.       *)
(***************************************************************************)
EXTENDS Integers, Sequences, FiniteSets, TLC

\* ------------------------------------------------------------ bounds

\* Longest raw request body, in bytes.
MaxLen == 2

\* ----------------------------------------------------- configuration

TIMEOUT == 3

RENDER_BACKEND_URL == "https://turfpro-secured-v2-1.onrender.com"

\* Values of os.getenv("HMAC_SECRET", "").encode(): unset (empty) or a key.
Secrets == {<<>>, <<115>>}

\* Keys a caller may sign with: the empty key, the relay's key, another key.
CallerKeys == Secrets \cup {<<116>>}

Workers == {"w1", "w2"}

\* ------------------------------------------------------------- inputs

\* '1' (0x31), and the two bytes of UTF-8 "e-acute" (0xC3 0xA9): each of the
\* last two alone is not valid UTF-8.
ByteAlphabet == {49, 195, 169}

RECURSIVE SeqsUpTo(_, _)
SeqsUpTo(S, n) ==
    IF n = 0 THEN {<<>>}
    ELSE LET shorter == SeqsUpTo(S, n - 1)
         IN  shorter \cup {<<x>> \o s : x \in S, s \in {t \in shorter : Len(t) = n - 1}}

RawBodies == SeqsUpTo(ByteAlphabet, MaxLen)

REPLACEMENT == 65533

\* bytes.decode(errors="replace"), UTF-8, for one- and two-byte forms: an
\* ill-formed byte becomes U+FFFD and decoding resumes at the next byte.
RECURSIVE Decode(_)
Decode(b) ==
    IF b = <<>> THEN <<>>
    ELSE IF b[1] < 128 THEN <<b[1]>> \o Decode(Tail(b))
    ELSE IF /\ b[1] \in 194..223
            /\ Len(b) >= 2
            /\ b[2] \in 128..191
         THEN <<(b[1] - 192) * 64 + (b[2] - 128)>> \o Decode(Tail(Tail(b)))
    ELSE <<REPLACEMENT>> \o Decode(Tail(b))

\* str.encode(): UTF-8 of a sequence of code points below 0x10000.
RECURSIVE Encode(_)
Encode(s) ==
    IF s = <<>> THEN <<>>
    ELSE LET c == s[1]
             head == IF c < 128 THEN <<c>>
                     ELSE IF c < 2048 THEN <<192 + (c \div 64), 128 + (c % 64)>>
                     ELSE <<224 + (c \div 4096), 128 + ((c \div 64) % 64), 128 + (c % 64)>>
         IN  head \o Encode(Tail(s))

\* request.get_data(as_text=True)
get_data_as_text(raw) == Decode(raw)

\* ---------------------------------------------------------- signatures

\* hmac.new(key, msg, hashlib.sha256).hexdigest()
HexDigest(key, msg) == [kind |-> "hex", key |-> key, msg |-> msg]

\* Header absent: request.headers.get('X-HMAC-Signature', '') is ''.
NoSignature == [kind |-> "empty", key |-> <<>>, msg |-> <<>>]

\* An ASCII header value that is no digest.
GarbageSignature == [kind |-> "ascii", key |-> <<>>, msg |-> <<>>]

\* A header value with a character above U+007F.
NonAsciiSignature == [kind |-> "nonascii", key |-> <<>>, msg |-> <<>>]

IsAscii(sig) == sig.kind # "nonascii"

\* What a caller may send with body raw: nothing, garbage, or a digest under
\* any key of the raw bytes or of the text the relay reads from them.
SignaturesFor(raw) ==
    {NoSignature, GarbageSignature, NonAsciiSignature}
    \cup {HexDigest(k, raw) : k \in CallerKeys}
    \cup {HexDigest(k, Encode(Decode(raw))) : k \in CallerKeys}

\* hmac.compare_digest(a, b) on two str: TypeError unless both are ASCII.
compare_digest(expected, signature) ==
    IF ~IsAscii(signature) THEN "TypeError"
    ELSE IF expected = signature THEN "True"
    ELSE "False"

\* verify_hmac without its guard on an unconfigured secret (lines 35-37).
verify_hmac_unguarded(secret, data, signature) ==
    compare_digest(HexDigest(secret, Encode(data)), signature)

verify_hmac(secret, data, signature) ==
    IF secret = <<>> THEN "False"
    ELSE compare_digest(HexDigest(secret, Encode(data)), signature)

\* ------------------------------------------------------ JSON, bodies

\* json.loads of a raw body over ByteAlphabet, as request.get_json() runs it:
\* the only JSON texts are the decimal numbers without a leading zero.
RECURSIVE DecimalValue(_)
DecimalValue(b) ==
    IF b = <<>> THEN 0
    ELSE DecimalValue(SubSeq(b, 1, Len(b) - 1)) * 10 + (b[Len(b)] - 48)

\* request.get_json(): the parsed value, or BadRequest raised.
get_json(raw) ==
    IF /\ raw # <<>>
       /\ raw[1] \in 49..57
       /\ \A i \in 1..Len(raw) : raw[i] \in 48..57
    THEN [ok |-> TRUE, value |-> DecimalValue(raw)]
    ELSE [ok |-> FALSE, value |-> 0]

\* Bodies the backend may answer with: two JSON texts and one that is not JSON.
OkText == "{\"ok\": true}"
DetailText == "{\"detail\": \"x\"}"
HtmlText == "<html>Service Unavailable</html>"

BackendTexts == {OkText, DetailText, HtmlText}

BackendStatuses == {200, 503}

\* resp.json(): the parsed value (named by its compact serialisation), or
\* JSONDecodeError raised.
resp_json(text) ==
    IF text = OkText THEN [ok |-> TRUE, value |-> "{\"ok\":true}"]
    ELSE IF text = DetailText THEN [ok |-> TRUE, value |-> "{\"detail\":\"x\"}"]
    ELSE [ok |-> FALSE, value |-> ""]

\* Results of one outbound call.
Response(status, text) == [kind |-> "response", status |-> status, text |-> text]
Raised(name) == [kind |-> "exception", status |-> 0, text |-> name]
NoReply == [kind |-> "none", status |-> 0, text |-> ""]

Outcomes ==
    {Response(st, t) : st \in BackendStatuses, t \in BackendTexts}
    \cup {Raised("ReadTimeout"), Raised("ConnectionError")}

\* Caller-visible bodies.
ErrorBody(msg) ==
    [kind |-> "error", text |-> msg, backend_status |-> 0, hmac_configured |-> FALSE]
\* jsonify(value) of a parsed backend body
jsonify(value) ==
    [kind |-> "json", text |-> value, backend_status |-> 0, hmac_configured |-> FALSE]
ProbeBody(code, flag) ==
    [kind |-> "probe", text |-> "OK", backend_status |-> code, hmac_configured |-> flag]
\* Flask's answer to an exception no handler catches.
InternalServerError ==
    [status |-> 500,
     body |-> [kind |-> "html", text |-> "Internal Server Error",
               backend_status |-> 0, hmac_configured |-> FALSE]]

NoResponse == [status |-> 0, body |-> ErrorBody("")]
NoRequest == [route |-> "none", body |-> <<>>, signature |-> NoSignature]

InvalidSignature == [status |-> 401, body |-> ErrorBody("Invalid HMAC signature")]
BackendError(detail) == [status |-> 502, body |-> ErrorBody("Backend error: " \o detail)]

\* -------------------------------------------------------------- state

VARIABLES
    config,     \* module globals HMAC_SECRET, RENDER_BACKEND_URL, TIMEOUT
    pc,         \* per worker: idle, forwarding, probing, done
    req,        \* per worker: the inbound request being handled
    auth,       \* per worker: what verify_hmac did for the request
    calls,      \* per worker: outbound calls made for the request, in order
    reply,      \* per worker: what the outbound call of the request yields
    response    \* per worker: what the caller receives

vars == <<config, pc, req, auth, calls, reply, response>>

Init ==
    /\ config \in {[HMAC_SECRET |-> s, RENDER_BACKEND_URL |-> RENDER_BACKEND_URL,
                    TIMEOUT |-> TIMEOUT] : s \in Secrets}
    /\ pc = [w \in Workers |-> "idle"]
    /\ req = [w \in Workers |-> NoRequest]
    /\ auth = [w \in Workers |-> "none"]
    /\ calls = [w \in Workers |-> <<>>]
    /\ reply = [w \in Workers |-> NoReply]
    /\ response = [w \in Workers |-> NoResponse]

\* resp kept in one module-level slot that every handler reads.
RespOfShared(w) == reply[CHOOSE v \in Workers : reply[v] # NoReply]

\* The local variable resp of the handler run by worker w.
RespOf(w) == reply[w]

\* engine(), after requests.post returned or raised (lines 92-97).
EngineResult(o) ==
    IF o.kind = "exception" THEN BackendError(o.text)
    ELSE LET j == resp_json(o.text)
         IN  IF j.ok THEN [status |-> o.status, body |-> jsonify(j.value)]
             ELSE BackendError("JSONDecodeError")

\* test_render relaying the backend's status code as its own.
TestRenderResultRelayed(o, secret) ==
    IF o.kind = "exception" THEN [status |-> 500, body |-> ErrorBody(o.text)]
    ELSE [status |-> o.status, body |-> ProbeBody(o.status, secret # <<>>)]

\* test_render(), after requests.get returned or raised (lines 77-82).
TestRenderResult(o, secret) ==
    IF o.kind = "exception" THEN [status |-> 500, body |-> ErrorBody(o.text)]
    ELSE [status |-> 200, body |-> ProbeBody(o.status, secret # <<>>)]

\* engine(), up to the outbound call (lines 86-92).
EngineReceive(w, raw, sig) ==
    /\ pc[w] = "idle"
    /\ LET data == get_data_as_text(raw)
           v == verify_hmac(config.HMAC_SECRET, data, sig)
           j == get_json(raw)
       IN  /\ req' = [req EXCEPT ![w] = [route |-> "/engine", body |-> raw, signature |-> sig]]
           /\ auth' = [auth EXCEPT ![w] = v]
           /\ IF v = "TypeError"
              THEN /\ pc' = [pc EXCEPT ![w] = "done"]
                   /\ response' = [response EXCEPT ![w] = InternalServerError]
                   /\ calls' = calls
              ELSE IF v = "False"
              THEN /\ pc' = [pc EXCEPT ![w] = "done"]
                   /\ response' = [response EXCEPT ![w] = InvalidSignature]
                   /\ calls' = calls
              ELSE IF ~j.ok
              THEN /\ pc' = [pc EXCEPT ![w] = "done"]
                   /\ response' = [response EXCEPT ![w] = BackendError("BadRequest")]
                   /\ calls' = calls
              ELSE /\ pc' = [pc EXCEPT ![w] = "forwarding"]
                   /\ response' = response
                   /\ calls' = [calls EXCEPT ![w] = Append(@,
                          [method |-> "POST", url |-> config.RENDER_BACKEND_URL,
                           path |-> "/engine", json |-> j.value,
                           timeout |-> config.TIMEOUT])]
    /\ UNCHANGED <<config, reply>>

EngineReturn(w) ==
    /\ pc[w] = "forwarding"
    /\ reply[w] # NoReply
    /\ response' = [response EXCEPT ![w] = EngineResult(RespOf(w))]
    /\ pc' = [pc EXCEPT ![w] = "done"]
    /\ UNCHANGED <<config, req, auth, calls, reply>>

\* test_render(), up to the outbound call (lines 74-76); the signature header
\* a caller may send is never read.
TestRenderReceive(w, sig) ==
    /\ pc[w] = "idle"
    /\ req' = [req EXCEPT ![w] = [route |-> "/test-render", body |-> <<>>, signature |-> sig]]
    /\ calls' = [calls EXCEPT ![w] = Append(@,
           [method |-> "GET", url |-> config.RENDER_BACKEND_URL,
            path |-> "/status", json |-> 0, timeout |-> config.TIMEOUT])]
    /\ pc' = [pc EXCEPT ![w] = "probing"]
    /\ UNCHANGED <<config, auth, reply, response>>

TestRenderReturn(w) ==
    /\ pc[w] = "probing"
    /\ reply[w] # NoReply
    /\ response' = [response EXCEPT ![w] = TestRenderResult(RespOf(w), config.HMAC_SECRET)]
    /\ pc' = [pc EXCEPT ![w] = "done"]
    /\ UNCHANGED <<config, req, auth, calls, reply>>

\* The backend (or the network) settles the pending call of worker w.
BackendServe(w, o) ==
    /\ pc[w] \in {"forwarding", "probing"}
    /\ reply[w] = NoReply
    /\ reply' = [reply EXCEPT ![w] = o]
    /\ UNCHANGED <<config, pc, req, auth, calls, response>>

\* The response is sent; the worker takes the next request with fresh locals.
Deliver(w) ==
    /\ pc[w] = "done"
    /\ pc' = [pc EXCEPT ![w] = "idle"]
    /\ req' = [req EXCEPT ![w] = NoRequest]
    /\ auth' = [auth EXCEPT ![w] = "none"]
    /\ calls' = [calls EXCEPT ![w] = <<>>]
    /\ reply' = [reply EXCEPT ![w] = NoReply]
    /\ response' = [response EXCEPT ![w] = NoResponse]
    /\ UNCHANGED config

Next ==
    \E w \in Workers :
        \/ \E raw \in RawBodies : \E sig \in SignaturesFor(raw) : EngineReceive(w, raw, sig)
        \/ EngineReturn(w)
        \/ \E sig \in {NoSignature, GarbageSignature} : TestRenderReceive(w, sig)
        \/ TestRenderReturn(w)
        \/ \E o \in Outcomes : BackendServe(w, o)
        \/ Deliver(w)

Spec == Init /\ [][Next]_vars

TypeOK ==
    /\ config.HMAC_SECRET \in Secrets
    /\ \A w \in Workers :
        /\ pc[w] \in {"idle", "forwarding", "probing", "done"}
        /\ auth[w] \in {"none", "True", "False", "TypeError"}
        /\ Len(calls[w]) <= 1

\* ------------------------------------------------------------ claims

IsEngine(w) == req[w].route = "/engine"
IsProbe(w) == req[w].route = "/test-render"

\* The caller-visible body is the backend's body: the same JSON value.
SameBody(body, text) ==
    /\ body.kind = "json"
    /\ resp_json(text).ok
    /\ body.text = resp_json(text).value

\* C1: a POST to /engine whose signature header is not the hex digest of the
\* request body under the configured secret makes no outbound call and is
\* answered 401 {"error": "Invalid HMAC signature"}.
C1_InvalidSignatureRejected ==
    \A w \in Workers :
        (IsEngine(w) /\ req[w].signature # HexDigest(config.HMAC_SECRET, req[w].body))
            => /\ calls[w] = <<>>
               /\ pc[w] = "done" => response[w] = InvalidSignature

\* The half of C1 that the code keeps: such a request makes no outbound call.
C1_NoOutboundCall ==
    \A w \in Workers :
        (IsEngine(w) /\ req[w].signature # HexDigest(config.HMAC_SECRET, req[w].body))
            => calls[w] = <<>>

\* C2: with an empty secret verify_hmac returns false for every body and every
\* signature, the digest under the empty key included, and no /engine request
\* is forwarded.
C2_EmptySecretNeverAuthenticates ==
    config.HMAC_SECRET = <<>> =>
        \A w \in Workers :
            IsEngine(w) => /\ auth[w] = "False"
                           /\ calls[w] = <<>>
                           /\ pc[w] = "done"
                           /\ response[w] = InvalidSignature

C2_Witness ==
    /\ config.HMAC_SECRET = <<>>
    /\ \E w \in Workers :
        /\ IsEngine(w)
        /\ req[w].signature = HexDigest(<<>>, Encode(get_data_as_text(req[w].body)))
        /\ get_json(req[w].body).ok
        /\ response[w] = InvalidSignature

\* C3: with a non-empty secret verify_hmac returns a boolean for every body
\* and signature: true exactly when the signature is the hex digest of the
\* body text under the secret, false otherwise.
C3_VerifyReturnsBoolean ==
    \A w \in Workers :
        (IsEngine(w) /\ config.HMAC_SECRET # <<>>)
            => auth[w] = IF req[w].signature
                              = HexDigest(config.HMAC_SECRET,
                                          Encode(get_data_as_text(req[w].body)))
                         THEN "True" ELSE "False"

\* C4: when the backend answers a validly signed /engine request, the caller
\* receives the backend's status code and body unchanged.
C4_BackendResponsePassedThrough ==
    \A w \in Workers :
        (IsEngine(w) /\ pc[w] = "done" /\ auth[w] = "True" /\ reply[w].kind = "response")
            => /\ response[w].status = reply[w].status
               /\ SameBody(response[w].body, reply[w].text)

\* C5: a validly signed /engine request whose backend never answers makes
\* exactly one outbound attempt (no retry) and only then is answered 502
\* {"error": "Backend error: <detail>"} with the transport failure as detail.
C5_OneAttemptThenBadGateway ==
    \A w \in Workers :
        (IsEngine(w) /\ pc[w] = "done" /\ auth[w] = "True" /\ reply[w].kind # "response")
            => /\ Len(calls[w]) = 1
               /\ reply[w].kind = "exception"
               /\ response[w] = BackendError(reply[w].text)

\* The five Relay Outcomes, as the finished request of worker w shows them.
AuthenticationRejected(w) ==
    response[w] = InvalidSignature /\ calls[w] = <<>>
ForwardedSuccess(w) ==
    /\ reply[w].kind = "response" /\ reply[w].status \in 200..299
    /\ response[w].status = reply[w].status
    /\ SameBody(response[w].body, reply[w].text)
BackendErrorOutcome(w) ==
    /\ reply[w].kind = "response" /\ reply[w].status \notin 200..299
    /\ response[w].status = reply[w].status
    /\ SameBody(response[w].body, reply[w].text)
BackendTimeout(w) ==
    reply[w] = Raised("ReadTimeout") /\ response[w] = BackendError("ReadTimeout")
BackendUnreachable(w) ==
    reply[w] = Raised("ConnectionError") /\ response[w] = BackendError("ConnectionError")

OutcomesOf(w) ==
    {o \in {"forwarded-success", "authentication-rejected", "backend-timeout",
            "backend-unreachable", "backend-error"} :
        \/ o = "forwarded-success" /\ ForwardedSuccess(w)
        \/ o = "authentication-rejected" /\ AuthenticationRejected(w)
        \/ o = "backend-timeout" /\ BackendTimeout(w)
        \/ o = "backend-unreachable" /\ BackendUnreachable(w)
        \/ o = "backend-error" /\ BackendErrorOutcome(w)}

\* C6: every /engine invocation ends in exactly one of the five Relay
\* Outcomes, and a finished request has made its last outbound attempt.
C6_ExactlyOneOutcome ==
    \A w \in Workers :
        (IsEngine(w) /\ pc[w] = "done")
            => /\ Cardinality(OutcomesOf(w)) = 1
               /\ Len(calls[w]) <= 1

\* The half of C6 that the code keeps: a finished request makes no further
\* outbound attempt and never re-enters forwarding.
C6_TerminalIsFinal ==
    [][\A w \in Workers :
          pc[w] = "done" => /\ pc'[w] \in {"done", "idle"}
                            /\ pc'[w] = "done" => calls'[w] = calls[w]]_vars

\* What a handler holds for its own request.
LocalsOf(w) == <<pc[w], req[w], auth[w], calls[w], reply[w], response[w]>>

OwnResponse(w) ==
    /\ calls[w][1].json = get_json(req[w].body).value
    /\ IF reply[w].kind = "response" /\ resp_json(reply[w].text).ok
       THEN /\ response[w].status = reply[w].status
            /\ response[w].body.text = resp_json(reply[w].text).value
       ELSE response[w].status = 502

\* C7: concurrent /engine requests each receive the status and body of the
\* backend call made for their own request, in every interleaving; no step
\* changes the configuration or the locals of more than one handler.
C7_NoCrossTalk ==
    /\ [](\A w \in Workers :
            (IsEngine(w) /\ pc[w] = "done" /\ calls[w] # <<>>) => OwnResponse(w))
    /\ [][/\ config' = config
          /\ Cardinality({w \in Workers : LocalsOf(w)' # LocalsOf(w)}) <= 1]_vars

C7_Witness ==
    \E v, w \in Workers :
        /\ v # w
        /\ IsEngine(v) /\ IsEngine(w)
        /\ req[v].body # req[w].body
        /\ req[v].signature # req[w].signature
        /\ pc[v] = "done" /\ pc[w] = "forwarding"
        /\ reply[v].kind = "response" /\ reply[w].kind = "response"
        /\ reply[v] # reply[w]
        /\ response[v].status = reply[v].status

\* C8: the probe makes exactly one outbound attempt, a GET of the backend's
\* /status under the timeout, whatever the secret and the signature header;
\* it answers 200 with the backend's status code when a response arrives, 500
\* with the error on timeout or connection failure, and changes no process
\* state.
C8_ProbeOneAttempt ==
    /\ [](\A w \in Workers :
            IsProbe(w) =>
                /\ calls[w] = <<[method |-> "GET", url |-> RENDER_BACKEND_URL,
                                 path |-> "/status", json |-> 0, timeout |-> TIMEOUT]>>
                /\ auth[w] = "none"
                /\ pc[w] = "done" =>
                      IF reply[w].kind = "response"
                      THEN /\ response[w].status = 200
                           /\ response[w].body.kind = "probe"
                           /\ response[w].body.backend_status = reply[w].status
                      ELSE /\ reply[w].kind = "exception"
                           /\ response[w] = [status |-> 500, body |-> ErrorBody(reply[w].text)])
    /\ [][(\E w \in Workers : IsProbe(w)' /\ LocalsOf(w)' # LocalsOf(w))
             => config' = config]_vars

C8_Witness ==
    /\ config.HMAC_SECRET = <<>>
    /\ \E w \in Workers :
        /\ IsProbe(w) /\ pc[w] = "done"
        /\ req[w].signature = GarbageSignature
        /\ reply[w] = Response(503, HtmlText)
        /\ response[w].status = 200
        /\ response[w].body.backend_status = 503

\* C9: the bytes /engine passes to the HMAC are the raw body bytes, for every
\* raw body: a signature over the raw bytes is accepted, and two distinct raw
\* bodies are never verified as the same message.
C9_HashOverRawBytes ==
    \A w \in Workers :
        IsEngine(w) =>
            /\ Encode(get_data_as_text(req[w].body)) = req[w].body
            /\ (config.HMAC_SECRET # <<>>
                /\ req[w].signature = HexDigest(config.HMAC_SECRET, req[w].body))
                   => auth[w] = "True"

\* C10: /engine answers 502 only after an outbound attempt was made for the
\* request and failed in transport.
C10_BadGatewayOnlyAfterTransportFailure ==
    \A w \in Workers :
        (IsEngine(w) /\ pc[w] = "done" /\ response[w].status = 502)
            => /\ Len(calls[w]) = 1
               /\ reply[w].kind = "exception"

\* ------------------------------------------- what the code does keep

\* For an ASCII signature verify_hmac returns a boolean, true exactly on the
\* hex digest of the body text under the non-empty secret.
VerifyOnAsciiSignatures ==
    \A w \in Workers :
        (IsEngine(w) /\ config.HMAC_SECRET # <<>> /\ IsAscii(req[w].signature))
            => auth[w] = IF req[w].signature
                              = HexDigest(config.HMAC_SECRET,
                                          Encode(get_data_as_text(req[w].body)))
                         THEN "True" ELSE "False"

\* A backend response whose body is JSON reaches the caller with its status.
JsonResponsePassedThrough ==
    \A w \in Workers :
        (/\ IsEngine(w) /\ pc[w] = "done" /\ auth[w] = "True"
         /\ reply[w].kind = "response" /\ resp_json(reply[w].text).ok)
            => /\ response[w].status = reply[w].status
               /\ SameBody(response[w].body, reply[w].text)

\* A forwarded request whose call fails in transport made exactly one attempt.
OneAttemptOnTransportFailure ==
    \A w \in Workers :
        (IsEngine(w) /\ pc[w] = "done" /\ reply[w].kind = "exception")
            => /\ Len(calls[w]) = 1
               /\ response[w] = BackendError(reply[w].text)

\* On bodies that are valid UTF-8 the hashed bytes are the raw bytes.
HashOverRawBytesWhenUtf8 ==
    \A w \in Workers :
        (IsEngine(w) /\ REPLACEMENT \notin {get_data_as_text(req[w].body)[i] :
                                             i \in 1..Len(get_data_as_text(req[w].body))})
            => Encode(get_data_as_text(req[w].body)) = req[w].body

=============================================================================
